---- MODULE Spec2Model ----
(***************************************************************************)
(* Model of package chaincfg (src/chaincfg/params.go): the network         *)
(* parameter registry (Register, mustRegister, init, the three prefix      *)
(* membership tests and HDPrivateKeyToPublicKeyID) and the difficulty      *)
(* window timespan methods of Params.                                      *)
(*                                                                         *)
(* Registry state is the five package-level maps.  A Go map[K]struct{} is  *)
(* the set of its keys.  hdPrivToPubKeyIDs maps a [4]byte key to a slice;  *)
(* the slice Register stores is params.HDPublicKeyID[:], which aliases the *)
(* array inside the Params object the caller passed by pointer, so the map *)
(* value is modelled as the address of that object and its bytes are read  *)
(* from the object memory "mem" at the time of the lookup.                 *)
(***************************************************************************)
EXTENDS Integers, Sequences, FiniteSets, TLC

VARIABLES
    registeredNets,     \* map[wire.BitcoinNet]struct{}   (set of keys)
    pubKeyHashAddrIDs,  \* map[byte]struct{}              (set of keys)
    scriptHashAddrIDs,  \* map[byte]struct{}              (set of keys)
    aztecAddrIDs,       \* map[byte]struct{}              (set of keys)
    hdPrivToPubKeyIDs,  \* map[[4]byte][]byte: key -> address of the Params
                        \* object whose HDPublicKeyID array backs the slice
    mem,                \* Params objects: the four package variables and the
                        \* caller objects the registry holds a slice into
    initStep,           \* number of mustRegister calls init() has completed
    panicked,           \* TRUE once mustRegister or newHashFromStr has panicked
    ret,                \* the last call of the registry API and what it returned
    registered,         \* history: the successful Register calls, in order
    ts,                 \* the last timespan method call and what it returned
    catalog             \* the hex literals of the package variables' initialisers
                        \* and what has been built from them so far

vars == <<registeredNets, pubKeyHashAddrIDs, scriptHashAddrIDs, aztecAddrIDs,
          hdPrivToPubKeyIDs, mem, initStep, panicked, ret, registered, ts,
          catalog>>

regVars == <<registeredNets, pubKeyHashAddrIDs, scriptHashAddrIDs, aztecAddrIDs,
             hdPrivToPubKeyIDs>>

-----------------------------------------------------------------------------
(* Bounds of the model *)

\* number of networks, besides the built-in ones, a caller may register
NumCustomNets == 2

\* largest PowAveragingWindow of the timespan inputs, besides the built-in 17
MaxWindow == 3

-----------------------------------------------------------------------------
(* time.Duration *)

\* A time.Duration is an int64 count of nanoseconds.  The built-in values
\* (17 minutes = 1.02e12 ns) do not fit the model checker's 32-bit integers,
\* so a Duration is kept as sign and magnitude in two decimal limbs:
\* value = (-1)^neg * (hi * Limb + lo) nanoseconds, 0 <= lo < Limb.
Limb == 1000000

Dur(neg, hi, lo) == [neg |-> neg /\ (hi # 0 \/ lo # 0), hi |-> hi, lo |-> lo]

Abs(n) == IF n < 0 THEN -n ELSE n

\* time.Duration(n) for a small integer n (|n| < Limb)
DurationOf(n) == Dur(n < 0, 0, Abs(n))

Nanosecond == DurationOf(1)
Second == Dur(FALSE, 1000, 0)
Minute == Dur(FALSE, 60000, 0)

\* a * b for Durations where one factor is below Limb (every product in
\* params.go has a block count or a percentage as one factor)
DurMul(a, b) ==
    LET big == IF a.hi = 0 THEN b ELSE a
        k   == IF a.hi = 0 THEN a.lo ELSE b.lo
        low == big.lo * k
    IN  Dur(a.neg # b.neg, big.hi * k + (low \div Limb), low % Limb)

\* d / n for a positive constant n: Go's integer division truncates toward
\* zero, which on sign and magnitude is division of the magnitude
DurDiv(d, n) ==
    Dur(d.neg, d.hi \div n, (((d.hi % n) * Limb) + d.lo) \div n)

-----------------------------------------------------------------------------
(* wire.BitcoinNet magics and the built-in parameters *)

MainNet == "MainNet"
TestNet == "TestNet"
TestNet3 == "TestNet3"
SimNet == "SimNet"

MainNetParams ==
    [Net |-> MainNet,
     PubKeyHashAddrID |-> 0, ScriptHashAddrID |-> 5, AztecAddrID |-> 51,
     HDPrivateKeyID |-> <<4, 136, 173, 228>>,
     HDPublicKeyID |-> <<4, 136, 178, 30>>,
     TargetTimePerBlock |-> Minute,
     PowAveragingWindow |-> 17, PowMaxAdjustDown |-> 32, PowMaxAdjustUp |-> 16]

RegressionNetParams ==
    [Net |-> TestNet,
     PubKeyHashAddrID |-> 111, ScriptHashAddrID |-> 196, AztecAddrID |-> 88,
     HDPrivateKeyID |-> <<4, 53, 131, 148>>,
     HDPublicKeyID |-> <<4, 53, 135, 207>>,
     TargetTimePerBlock |-> Minute,
     PowAveragingWindow |-> 17, PowMaxAdjustDown |-> 32, PowMaxAdjustUp |-> 16]

TestNet3Params ==
    [Net |-> TestNet3,
     PubKeyHashAddrID |-> 111, ScriptHashAddrID |-> 196, AztecAddrID |-> 88,
     HDPrivateKeyID |-> <<4, 53, 131, 148>>,
     HDPublicKeyID |-> <<4, 53, 135, 207>>,
     TargetTimePerBlock |-> Minute,
     PowAveragingWindow |-> 17, PowMaxAdjustDown |-> 64, PowMaxAdjustUp |-> 64]

\* SimNetParams as it would be if it carried the main network's magic
SimNetParamsMainMagic ==
    [Net |-> MainNet,
     PubKeyHashAddrID |-> 63, ScriptHashAddrID |-> 123, AztecAddrID |-> 0,
     HDPrivateKeyID |-> <<4, 32, 185, 0>>,
     HDPublicKeyID |-> <<4, 32, 189, 58>>,
     TargetTimePerBlock |-> Minute,
     PowAveragingWindow |-> 17, PowMaxAdjustDown |-> 32, PowMaxAdjustUp |-> 16]

\* SimNetParams leaves AztecAddrID unset: the zero value
SimNetParams ==
    [Net |-> SimNet,
     PubKeyHashAddrID |-> 63, ScriptHashAddrID |-> 123, AztecAddrID |-> 0,
     HDPrivateKeyID |-> <<4, 32, 185, 0>>,
     HDPublicKeyID |-> <<4, 32, 189, 58>>,
     TargetTimePerBlock |-> Minute,
     PowAveragingWindow |-> 17, PowMaxAdjustDown |-> 32, PowMaxAdjustUp |-> 16]

\* the package variables, by address
PackageVars ==
    [MainNetParams |-> MainNetParams, TestNet3Params |-> TestNet3Params,
     RegressionNetParams |-> RegressionNetParams, SimNetParams |-> SimNetParams]

\* the order in which init() registers them
InitOrder == <<"MainNetParams", "TestNet3Params", "RegressionNetParams", "SimNetParams">>

BuiltinNets == {PackageVars[a].Net : a \in DOMAIN PackageVars}

ErrDuplicateNet == "duplicate Bitcoin network"
ErrUnknownHDKeyID == "unknown hd private extended key bytes"
Nil == "nil"

-----------------------------------------------------------------------------
(* Inputs of the calls *)

CustomNetNames == <<"CustomNet1", "CustomNet2", "CustomNet3", "CustomNet4">>
CustomNets == {CustomNetNames[i] : i \in 1..NumCustomNets}

\* addresses of the Params objects callers allocate, in allocation order
ObjNames == <<"obj1", "obj2", "obj3", "obj4", "obj5">>

CustomHDPrivateKeyID == <<4, 0, 0, 1>>
CustomHDPublicKeyID == <<4, 0, 0, 2>>
OtherHDPublicKeyID == <<4, 0, 0, 3>>

\* <<PubKeyHashAddrID, ScriptHashAddrID, AztecAddrID>> of a caller's network:
\* the test networks' prefixes with no Aztec prefix, or three unclaimed bytes
PrefixInputs == {<<111, 196, 0>>, <<16, 17, 18>>}

\* <<HDPrivateKeyID, HDPublicKeyID>> of a caller's network: the main network's
\* private magic with another public magic, or a new pair
HDInputs ==
    {<<MainNetParams.HDPrivateKeyID, CustomHDPublicKeyID>>,
     <<CustomHDPrivateKeyID, OtherHDPublicKeyID>>}

\* the Params values a caller builds
CallerParams ==
    {[Net |-> n,
      PubKeyHashAddrID |-> a[1], ScriptHashAddrID |-> a[2], AztecAddrID |-> a[3],
      HDPrivateKeyID |-> h[1], HDPublicKeyID |-> h[2],
      TargetTimePerBlock |-> Minute,
      PowAveragingWindow |-> 17, PowMaxAdjustDown |-> 32, PowMaxAdjustUp |-> 16]
        : n \in {MainNet} \cup CustomNets, a \in PrefixInputs, h \in HDInputs}

\* the bytes the membership tests are asked about: prefixes of the main and
\* test networks, 0 (no Aztec prefix), and the callers' new prefixes
ByteInputs == {0, 5, 111, 196, 88, 16, 17, 18}

\* the ids HDPrivateKeyToPublicKeyID is asked about: registered and unknown
\* 4-byte ids, a 3-byte and a 5-byte one
KeyInputs ==
    {MainNetParams.HDPrivateKeyID, CustomHDPrivateKeyID,
     MainNetParams.HDPublicKeyID, <<4, 136, 173>>, <<4, 136, 173, 228, 0>>}

-----------------------------------------------------------------------------
(* The hex literals of the package variables and their parsing *)

HexDigit ==
    {"0", "1", "2", "3", "4", "5", "6", "7", "8", "9",
     "a", "b", "c", "d", "e", "f", "A", "B", "C", "D", "E", "F"}

\* a string is the sequence of its characters
IsHexString(s) == \A i \in 1..Len(s) : s[i] \in HexDigit

\* the digits of a number without its leading zeros
StripZeros(s) ==
    LET nz == {i \in 1..Len(s) : s[i] # "0"}
    IN  IF nz = {} THEN <<>>
        ELSE SubSeq(s, CHOOSE i \in nz : \A j \in nz : i <= j, Len(s))

\* (*big.Int).SetString(s, 16): an optional sign and at least one hex digit;
\* ok is its second result, value the number as sign and hex digits
BigSetString(s) ==
    LET signed == Len(s) > 0 /\ s[1] \in {"+", "-"}
        digits == IF signed THEN Tail(s) ELSE s
        ok     == digits # <<>> /\ IsHexString(digits)
    IN  [ok |-> ok,
         value |-> IF ok
                   THEN [neg |-> signed /\ s[1] = "-" /\ StripZeros(digits) # <<>>,
                         digits |-> StripZeros(digits)]
                   ELSE [neg |-> FALSE, digits |-> <<>>]]

\* what a big.Int may hold after a failed SetString, which leaves its value
\* undefined
UndefinedBigInts == {[neg |-> FALSE, digits |-> <<>>], [neg |-> FALSE, digits |-> <<"f">>]}

\* func powLimitFromStr(hexStr string) *big.Int: the results it may return.
\* The second result of SetString is dropped, so it never panics; "parsed"
\* records whether the string was a number.
powLimitFromStr(hexStr) ==
    LET r == BigSetString(hexStr)
    IN  IF r.ok THEN {[panic |-> FALSE, parsed |-> TRUE, value |-> r.value]}
        ELSE {[panic |-> FALSE, parsed |-> FALSE, value |-> v] : v \in UndefinedBigInts}

\* chainhash.NewHashFromStr: an error for a string that does not parse as a
\* hex-encoded hash
NewHashFromStr(s) ==
    [err |-> ~IsHexString(s), hash |-> s]

\* func newHashFromStr(hexStr string) *chainhash.Hash: panics on an error
newHashFromStr(hexStr) ==
    LET r == NewHashFromStr(hexStr)
    IN  [panic |-> r.err, parsed |-> ~r.err, value |-> r.hash]

\* the literals of regressionPowLimit and testNet3PowLimit
RegressionPowLimitStr == [i \in 1..64 |-> IF i % 2 = 1 THEN "0" ELSE "f"]
TestNet3PowLimitStr == [i \in 1..64 |-> IF i = 1 THEN "0" ELSE IF i = 2 THEN "7" ELSE "f"]

\* the Params variables that hold the two parsed limits as PowLimit, by the
\* position of the limit's initialiser
PowLimitOf == [RegressionNetParams |-> 1, TestNet3Params |-> 2]

\* the catalog of the source: its two proof-of-work literals, parsed, and no
\* hash literal (every Checkpoints list is empty)
SourceCatalog ==
    [powLits |-> <<RegressionPowLimitStr, TestNet3PowLimitStr>>,
     hashLits |-> <<>>,
     powLimits |-> <<[panic |-> FALSE, parsed |-> TRUE,
                      value |-> BigSetString(RegressionPowLimitStr).value],
                     [panic |-> FALSE, parsed |-> TRUE,
                      value |-> BigSetString(TestNet3PowLimitStr).value]>>,
     hashes |-> <<>>]

\* every initialiser of the package variables has been evaluated
CatalogBuilt ==
    /\ Len(catalog.powLimits) = Len(catalog.powLits)
    /\ Len(catalog.hashes) = Len(catalog.hashLits)

\* literals an edit of the source could put in place of the shipped ones:
\* well-formed and malformed ones
PowLitInputs ==
    {RegressionPowLimitStr, TestNet3PowLimitStr, <<"0", "0", "f">>,
     <<"0", "x", "f">>, <<"0", "g">>, <<>>}
HashLitInputs ==
    {<<>>, <<<<"0", "0", "a", "b">>>>, <<<<"z", "z">>>>,
     <<<<"0", "1">>, <<"0", "h">>>>}

-----------------------------------------------------------------------------
(* The registry *)

\* m[k] = v on a Go map
MapPut(m, k, v) == [x \in DOMAIN m \cup {k} |-> IF x = k THEN v ELSE m[x]]

EmptyMap == [x \in {} |-> Nil]

\* Register as it would be if an HD private magic kept its first entry
RegisterKeepsFirst(ptr, params, err) ==
    IF params.Net \in registeredNets
    THEN /\ err = ErrDuplicateNet
         /\ UNCHANGED regVars
    ELSE /\ registeredNets' = registeredNets \cup {params.Net}
         /\ pubKeyHashAddrIDs' = pubKeyHashAddrIDs \cup {params.PubKeyHashAddrID}
         /\ scriptHashAddrIDs' = scriptHashAddrIDs \cup {params.ScriptHashAddrID}
         /\ aztecAddrIDs' = IF params.AztecAddrID # 0
                            THEN aztecAddrIDs \cup {params.AztecAddrID}
                            ELSE aztecAddrIDs
         /\ hdPrivToPubKeyIDs' = IF params.HDPrivateKeyID \in DOMAIN hdPrivToPubKeyIDs
                                 THEN hdPrivToPubKeyIDs
                                 ELSE MapPut(hdPrivToPubKeyIDs, params.HDPrivateKeyID, ptr)
         /\ err = Nil

\* Register as it would be if a registered HD private magic were an error
RegisterRejectsDuplicateHD(ptr, params, err) ==
    IF \/ params.Net \in registeredNets
       \/ params.HDPrivateKeyID \in DOMAIN hdPrivToPubKeyIDs
    THEN /\ err = ErrDuplicateNet
         /\ UNCHANGED regVars
    ELSE /\ registeredNets' = registeredNets \cup {params.Net}
         /\ pubKeyHashAddrIDs' = pubKeyHashAddrIDs \cup {params.PubKeyHashAddrID}
         /\ scriptHashAddrIDs' = scriptHashAddrIDs \cup {params.ScriptHashAddrID}
         /\ aztecAddrIDs' = IF params.AztecAddrID # 0
                            THEN aztecAddrIDs \cup {params.AztecAddrID}
                            ELSE aztecAddrIDs
         /\ hdPrivToPubKeyIDs' = MapPut(hdPrivToPubKeyIDs, params.HDPrivateKeyID, ptr)
         /\ err = Nil

\* Register as it would be if a claimed pubkey-hash prefix were an error too
RegisterUniquePrefix(ptr, params, err) ==
    IF params.Net \in registeredNets \/ params.PubKeyHashAddrID \in pubKeyHashAddrIDs
    THEN /\ err = ErrDuplicateNet
         /\ UNCHANGED regVars
    ELSE /\ registeredNets' = registeredNets \cup {params.Net}
         /\ pubKeyHashAddrIDs' = pubKeyHashAddrIDs \cup {params.PubKeyHashAddrID}
         /\ scriptHashAddrIDs' = scriptHashAddrIDs \cup {params.ScriptHashAddrID}
         /\ aztecAddrIDs' = IF params.AztecAddrID # 0
                            THEN aztecAddrIDs \cup {params.AztecAddrID}
                            ELSE aztecAddrIDs
         /\ hdPrivToPubKeyIDs' = MapPut(hdPrivToPubKeyIDs, params.HDPrivateKeyID, ptr)
         /\ err = Nil

\* Register as it would be without the test for a zero AztecAddrID
RegisterAztecAlways(ptr, params, err) ==
    IF params.Net \in registeredNets
    THEN /\ err = ErrDuplicateNet
         /\ UNCHANGED regVars
    ELSE /\ registeredNets' = registeredNets \cup {params.Net}
         /\ pubKeyHashAddrIDs' = pubKeyHashAddrIDs \cup {params.PubKeyHashAddrID}
         /\ scriptHashAddrIDs' = scriptHashAddrIDs \cup {params.ScriptHashAddrID}
         /\ aztecAddrIDs' = aztecAddrIDs \cup {params.AztecAddrID}
         /\ hdPrivToPubKeyIDs' = MapPut(hdPrivToPubKeyIDs, params.HDPrivateKeyID, ptr)
         /\ err = Nil

\* Register as it would be if it stored the prefixes before the duplicate test
RegisterStoresFirst(ptr, params, err) ==
    /\ pubKeyHashAddrIDs' = pubKeyHashAddrIDs \cup {params.PubKeyHashAddrID}
    /\ scriptHashAddrIDs' = scriptHashAddrIDs \cup {params.ScriptHashAddrID}
    /\ aztecAddrIDs' = IF params.AztecAddrID # 0
                       THEN aztecAddrIDs \cup {params.AztecAddrID}
                       ELSE aztecAddrIDs
    /\ IF params.Net \in registeredNets
       THEN /\ err = ErrDuplicateNet
            /\ UNCHANGED <<registeredNets, hdPrivToPubKeyIDs>>
       ELSE /\ registeredNets' = registeredNets \cup {params.Net}
            /\ hdPrivToPubKeyIDs' = MapPut(hdPrivToPubKeyIDs, params.HDPrivateKeyID, ptr)
            /\ err = Nil

\* Register as it would be if each call replaced the pubkey-hash map
RegisterReplacesPrefixes(ptr, params, err) ==
    IF params.Net \in registeredNets
    THEN /\ err = ErrDuplicateNet
         /\ UNCHANGED regVars
    ELSE /\ registeredNets' = registeredNets \cup {params.Net}
         /\ pubKeyHashAddrIDs' = {params.PubKeyHashAddrID}
         /\ scriptHashAddrIDs' = scriptHashAddrIDs \cup {params.ScriptHashAddrID}
         /\ aztecAddrIDs' = IF params.AztecAddrID # 0
                            THEN aztecAddrIDs \cup {params.AztecAddrID}
                            ELSE aztecAddrIDs
         /\ hdPrivToPubKeyIDs' = MapPut(hdPrivToPubKeyIDs, params.HDPrivateKeyID, ptr)
         /\ err = Nil

\* Register as it would be if it did not store the script-hash prefix
RegisterNoScriptHash(ptr, params, err) ==
    IF params.Net \in registeredNets
    THEN /\ err = ErrDuplicateNet
         /\ UNCHANGED regVars
    ELSE /\ registeredNets' = registeredNets \cup {params.Net}
         /\ pubKeyHashAddrIDs' = pubKeyHashAddrIDs \cup {params.PubKeyHashAddrID}
         /\ UNCHANGED scriptHashAddrIDs
         /\ aztecAddrIDs' = IF params.AztecAddrID # 0
                            THEN aztecAddrIDs \cup {params.AztecAddrID}
                            ELSE aztecAddrIDs
         /\ hdPrivToPubKeyIDs' = MapPut(hdPrivToPubKeyIDs, params.HDPrivateKeyID, ptr)
         /\ err = Nil

\* func Register(params *Params) error, called with the address ptr of an
\* object holding params; err is the error returned
Register(ptr, params, err) ==
    IF params.Net \in registeredNets
    THEN /\ err = ErrDuplicateNet
         /\ UNCHANGED regVars
    ELSE /\ registeredNets' = registeredNets \cup {params.Net}
         /\ pubKeyHashAddrIDs' = pubKeyHashAddrIDs \cup {params.PubKeyHashAddrID}
         /\ scriptHashAddrIDs' = scriptHashAddrIDs \cup {params.ScriptHashAddrID}
         /\ aztecAddrIDs' = IF params.AztecAddrID # 0
                            THEN aztecAddrIDs \cup {params.AztecAddrID}
                            ELSE aztecAddrIDs
         /\ hdPrivToPubKeyIDs' = MapPut(hdPrivToPubKeyIDs, params.HDPrivateKeyID, ptr)
         /\ err = Nil

\* what a Register call leaves behind for the caller and in the history
Returned(ptr, params, err) ==
    /\ ret' = [op |-> "Register", ptr |-> ptr, params |-> params, err |-> err]
    /\ registered' = IF err = Nil
                     THEN Append(registered, [ptr |-> ptr, params |-> params])
                     ELSE registered

\* func mustRegister(params *Params): panics when Register returns an error
mustRegister(ptr) ==
    \E err \in {Nil, ErrDuplicateNet} :
        /\ Register(ptr, mem[ptr], err)
        /\ Returned(ptr, mem[ptr], err)
        /\ panicked' = (err # Nil)

\* init() has returned; Go runs it before any code outside the package can
\* call the package, so callers' calls are enabled only then
InitDone == initStep = Len(InitOrder) /\ ~panicked

\* func init(): one step per mustRegister call, in source order
init ==
    /\ CatalogBuilt
    /\ initStep < Len(InitOrder)
    /\ ~panicked
    /\ mustRegister(InitOrder[initStep + 1])
    /\ initStep' = IF panicked' THEN initStep ELSE initStep + 1
    /\ UNCHANGED <<mem, ts, catalog>>

\* the address of the next object a caller allocates
FreshObj == ObjNames[Cardinality(DOMAIN mem) - Cardinality(DOMAIN PackageVars) + 1]

\* a caller's Register(&p): p is a package variable, an object registered
\* before, or a new object holding one of CallerParams
RegisterCall ==
    /\ InitDone
    /\ \E ptr \in DOMAIN mem \cup {FreshObj} :
       \E params \in (IF ptr \in DOMAIN mem THEN {mem[ptr]} ELSE CallerParams) :
       \E err \in {Nil, ErrDuplicateNet} :
            /\ Register(ptr, params, err)
            /\ Returned(ptr, params, err)
            /\ mem' = IF err = Nil THEN MapPut(mem, ptr, params) ELSE mem
    /\ UNCHANGED <<initStep, panicked, ts, catalog>>

\* func IsPubKeyHashAddrID(id byte) bool
IsPubKeyHashAddrID(id) == id \in pubKeyHashAddrIDs

\* IsScriptHashAddrID as it would be if it read the pubkey-hash map
IsScriptHashAddrIDWrongMap(id) == id \in pubKeyHashAddrIDs

\* func IsScriptHashAddrID(id byte) bool
IsScriptHashAddrID(id) == id \in scriptHashAddrIDs

\* func IsAztecAddrID(id byte) bool
IsAztecAddrID(id) == id \in aztecAddrIDs

\* copy(key[:], id) into a zeroed [4]byte
Copy4(id) ==
    LET b(i) == IF i <= Len(id) THEN id[i] ELSE 0
    IN  <<b(1), b(2), b(3), b(4)>>

\* HDPrivateKeyToPublicKeyID as it would be without the length test
HDPrivateKeyToPublicKeyIDAnyLength(id) ==
    LET key == Copy4(id)
    IN  IF key \notin DOMAIN hdPrivToPubKeyIDs
        THEN [bytes |-> <<>>, ptr |-> Nil, err |-> ErrUnknownHDKeyID]
        ELSE [bytes |-> mem[hdPrivToPubKeyIDs[key]].HDPublicKeyID,
              ptr |-> hdPrivToPubKeyIDs[key], err |-> Nil]

\* func HDPrivateKeyToPublicKeyID(id []byte) ([]byte, error): the slice
\* returned is the one stored, so it still points into the object at ptr;
\* bytes is what it holds when the call returns (<<>> for a nil slice)
HDPrivateKeyToPublicKeyID(id) ==
    IF Len(id) # 4
    THEN [bytes |-> <<>>, ptr |-> Nil, err |-> ErrUnknownHDKeyID]
    ELSE LET key == Copy4(id)
         IN  IF key \notin DOMAIN hdPrivToPubKeyIDs
             THEN [bytes |-> <<>>, ptr |-> Nil, err |-> ErrUnknownHDKeyID]
             ELSE [bytes |-> mem[hdPrivToPubKeyIDs[key]].HDPublicKeyID,
                   ptr |-> hdPrivToPubKeyIDs[key], err |-> Nil]

IsPubKeyHashAddrIDCall ==
    /\ InitDone
    /\ \E id \in ByteInputs :
        ret' = [op |-> "IsPubKeyHashAddrID", id |-> id, ok |-> IsPubKeyHashAddrID(id)]
    /\ UNCHANGED <<regVars, mem, initStep, panicked, registered, ts, catalog>>

IsScriptHashAddrIDCall ==
    /\ InitDone
    /\ \E id \in ByteInputs :
        ret' = [op |-> "IsScriptHashAddrID", id |-> id, ok |-> IsScriptHashAddrID(id)]
    /\ UNCHANGED <<regVars, mem, initStep, panicked, registered, ts, catalog>>

IsAztecAddrIDCall ==
    /\ InitDone
    /\ \E id \in ByteInputs :
        ret' = [op |-> "IsAztecAddrID", id |-> id, ok |-> IsAztecAddrID(id)]
    /\ UNCHANGED <<regVars, mem, initStep, panicked, registered, ts, catalog>>

HDPrivateKeyToPublicKeyIDCall ==
    /\ InitDone
    /\ \E id \in KeyInputs :
        LET r == HDPrivateKeyToPublicKeyID(id)
        IN  ret' = [op |-> "HDPrivateKeyToPublicKeyID", id |-> id,
                    bytes |-> r.bytes, ptr |-> r.ptr, err |-> r.err]
    /\ UNCHANGED <<regVars, mem, initStep, panicked, registered, ts, catalog>>

NoCall == [op |-> "none"]

\* the package after its variables are initialised and before init() runs
Init ==
    /\ registeredNets = {}
    /\ pubKeyHashAddrIDs = {}
    /\ scriptHashAddrIDs = {}
    /\ aztecAddrIDs = {}
    /\ hdPrivToPubKeyIDs = EmptyMap
    /\ mem = PackageVars
    /\ initStep = 0
    /\ panicked = FALSE
    /\ ret = NoCall
    /\ registered = <<>>
    /\ ts = NoCall
    /\ catalog = SourceCatalog

Next ==
    \/ init
    \/ RegisterCall
    \/ IsPubKeyHashAddrIDCall
    \/ IsScriptHashAddrIDCall
    \/ IsAztecAddrIDCall
    \/ HDPrivateKeyToPublicKeyIDCall

Spec == Init /\ [][Next]_vars

-----------------------------------------------------------------------------
(* Callers that write to memory the registry refers to *)

\* Register stores params.HDPublicKeyID[:], a slice of the array inside the
\* caller's Params object, and HDPrivateKeyToPublicKeyID returns that slice:
\* the objects a caller can reach and write to, and the byte it writes
WriteTargets == {"MainNetParams"} \cup {ObjNames[i] : i \in DOMAIN ObjNames}
WriteByte == 255

\* a[0] = b on a 4-byte array or slice
SetFirst(a, b) == <<b, a[2], a[3], a[4]>>

\* p.HDPublicKeyID[0] = b, on a Params object passed to Register earlier
ParamsWrite ==
    /\ InitDone
    /\ \E ptr \in DOMAIN mem \cap WriteTargets :
        /\ mem' = [mem EXCEPT ![ptr].HDPublicKeyID = SetFirst(@, WriteByte)]
        /\ ret' = [op |-> "ParamsWrite", ptr |-> ptr]
    /\ UNCHANGED <<regVars, initStep, panicked, registered, ts, catalog>>

\* pub[0] = b, on the slice the HDPrivateKeyToPublicKeyID call that has just
\* returned handed out
SliceWrite ==
    /\ InitDone
    /\ ret.op = "HDPrivateKeyToPublicKeyID"
    /\ ret.err = Nil
    /\ mem' = [mem EXCEPT ![ret.ptr].HDPublicKeyID = SetFirst(@, WriteByte)]
    /\ ret' = [op |-> "SliceWrite", ptr |-> ret.ptr]
    /\ UNCHANGED <<regVars, initStep, panicked, registered, ts, catalog>>

NextAlias ==
    \/ init
    \/ RegisterCall
    \/ IsPubKeyHashAddrIDCall
    \/ IsScriptHashAddrIDCall
    \/ IsAztecAddrIDCall
    \/ HDPrivateKeyToPublicKeyIDCall
    \/ ParamsWrite
    \/ SliceWrite

SpecAlias == Init /\ [][NextAlias]_vars

\* the package before any of its variables is initialised
InitCatalog ==
    /\ registeredNets = {}
    /\ pubKeyHashAddrIDs = {}
    /\ scriptHashAddrIDs = {}
    /\ aztecAddrIDs = {}
    /\ hdPrivToPubKeyIDs = EmptyMap
    /\ mem = PackageVars
    /\ initStep = 0
    /\ panicked = FALSE
    /\ ret = NoCall
    /\ registered = <<>>
    /\ ts = NoCall
    /\ \E r \in PowLitInputs, t \in PowLitInputs, h \in HashLitInputs :
        catalog = [powLits |-> <<r, t>>, hashLits |-> h,
                   powLimits |-> <<>>, hashes |-> <<>>]

\* the initialiser of the next proof-of-work limit variable
powLimitInit ==
    /\ ~panicked
    /\ Len(catalog.powLimits) < Len(catalog.powLits)
    /\ \E r \in powLimitFromStr(catalog.powLits[Len(catalog.powLimits) + 1]) :
        /\ catalog' = [catalog EXCEPT !.powLimits = Append(@, r)]
        /\ panicked' = r.panic
    /\ UNCHANGED <<regVars, mem, initStep, ret, registered, ts>>

\* the initialiser of the next hash a Params variable holds; they follow the
\* proof-of-work limits, which the Params variables refer to
hashInit ==
    /\ ~panicked
    /\ Len(catalog.powLimits) = Len(catalog.powLits)
    /\ Len(catalog.hashes) < Len(catalog.hashLits)
    /\ LET r == newHashFromStr(catalog.hashLits[Len(catalog.hashes) + 1])
       IN  /\ catalog' = [catalog EXCEPT !.hashes = Append(@, r)]
           /\ panicked' = r.panic
    /\ UNCHANGED <<regVars, mem, initStep, ret, registered, ts>>

NextCatalog ==
    \/ powLimitInit
    \/ hashInit
    \/ init

SpecCatalog == InitCatalog /\ [][NextCatalog]_vars

-----------------------------------------------------------------------------
(* The difficulty window timespans *)

\* func (p Params) AveragingWindowTimespan() time.Duration
AveragingWindowTimespan(p) ==
    DurMul(DurationOf(p.PowAveragingWindow), p.TargetTimePerBlock)

\* MaxActualTimespan as it would be with the percentage of the other bound
MaxActualTimespanOtherPercent(p) ==
    LET dampenPercentage == DurationOf(100 + p.PowMaxAdjustUp)
    IN  DurDiv(DurMul(AveragingWindowTimespan(p), dampenPercentage), 100)

\* func (p Params) MaxActualTimespan() time.Duration
MaxActualTimespan(p) ==
    LET dampenPercentage == DurationOf(100 + p.PowMaxAdjustDown)
    IN  DurDiv(DurMul(AveragingWindowTimespan(p), dampenPercentage), 100)

\* MinActualTimespan as it would be if it divided by 100 before multiplying
MinActualTimespanDivideFirst(p) ==
    LET dampenPercentage == DurationOf(100 - p.PowMaxAdjustUp)
    IN  DurMul(DurDiv(AveragingWindowTimespan(p), 100), dampenPercentage)

\* func (p Params) MinActualTimespan() time.Duration
MinActualTimespan(p) ==
    LET dampenPercentage == DurationOf(100 - p.PowMaxAdjustUp)
    IN  DurDiv(DurMul(AveragingWindowTimespan(p), dampenPercentage), 100)

\* receivers of the timespan methods: the built-in values and values around
\* them, with percentages outside 0..100 (the methods check no range) and
\* block times that are not multiples of 100 ns
WindowInputs == (0..MaxWindow) \cup {17}
BlockTimeInputs ==
    {Nanosecond, DurationOf(7), DurationOf(999999), Dur(FALSE, 1, 50),
     Second, Minute, DurMul(DurationOf(150), Second)}
AdjustDownInputs == {-150, 0, 32, 64, 133}
AdjustUpInputs == {0, 16, 64, 100, 133}

TimespanInputs ==
    {[MainNetParams EXCEPT !.PowAveragingWindow = w, !.TargetTimePerBlock = t,
                           !.PowMaxAdjustDown = dn, !.PowMaxAdjustUp = up]
        : w \in WindowInputs, t \in BlockTimeInputs,
          dn \in AdjustDownInputs, up \in AdjustUpInputs}

\* a caller holds one of TimespanInputs and calls its methods in any order
InitTimespan ==
    /\ registeredNets = {}
    /\ pubKeyHashAddrIDs = {}
    /\ scriptHashAddrIDs = {}
    /\ aztecAddrIDs = {}
    /\ hdPrivToPubKeyIDs = EmptyMap
    /\ mem = PackageVars
    /\ initStep = 0
    /\ panicked = FALSE
    /\ ret = NoCall
    /\ registered = <<>>
    /\ \E p \in TimespanInputs : ts = [op |-> "Params", p |-> p, d |-> DurationOf(0)]
    /\ catalog = SourceCatalog

AveragingWindowTimespanCall ==
    /\ ts.op # "none"
    /\ ts' = [op |-> "AveragingWindowTimespan", p |-> ts.p,
              d |-> AveragingWindowTimespan(ts.p)]
    /\ UNCHANGED <<regVars, mem, initStep, panicked, ret, registered, catalog>>

MaxActualTimespanCall ==
    /\ ts.op # "none"
    /\ ts' = [op |-> "MaxActualTimespan", p |-> ts.p, d |-> MaxActualTimespan(ts.p)]
    /\ UNCHANGED <<regVars, mem, initStep, panicked, ret, registered, catalog>>

MinActualTimespanCall ==
    /\ ts.op # "none"
    /\ ts' = [op |-> "MinActualTimespan", p |-> ts.p, d |-> MinActualTimespan(ts.p)]
    /\ UNCHANGED <<regVars, mem, initStep, panicked, ret, registered, catalog>>

NextTimespan ==
    \/ AveragingWindowTimespanCall
    \/ MaxActualTimespanCall
    \/ MinActualTimespanCall

SpecTimespan == InitTimespan /\ [][NextTimespan]_vars

-----------------------------------------------------------------------------
(* Properties of the registry *)

Byte == 0..255

\* the networks registered so far, as the history of successful calls has them
RegisteredParams == {registered[i].params : i \in DOMAIN registered}

\* C1: every Register call returns ErrDuplicateNet exactly when the network
\* magic of its argument was claimed by an earlier successful Register, and
\* succeeds otherwise; prefixes and HD magics it shares with registered
\* networks play no part.
C1_DuplicateIffMagicClaimed ==
    [][ret'.op = "Register" =>
         /\ ret'.err \in {Nil, ErrDuplicateNet}
         /\ ret'.err = ErrDuplicateNet
              <=> \E q \in RegisteredParams : q.Net = ret'.params.Net]_vars

\* a network with a magic of its own has registered although an earlier
\* network holds its pubkey-hash prefix, script-hash prefix and HD private magic
C1_Witness ==
    /\ ret.op = "Register"
    /\ ret.err = Nil
    /\ ret.params.Net \in CustomNets
    /\ \E i \in 1..(Len(registered) - 1) :
        /\ registered[i].params.Net # ret.params.Net
        /\ registered[i].params.PubKeyHashAddrID = ret.params.PubKeyHashAddrID
        /\ registered[i].params.ScriptHashAddrID = ret.params.ScriptHashAddrID
    /\ \E i \in 1..(Len(registered) - 1) :
        registered[i].params.HDPrivateKeyID = ret.params.HDPrivateKeyID

\* C2: in every reachable state each membership test answers for all the
\* successfully registered networks together: it is true of a byte exactly
\* when some registered network has that byte as the prefix in question, and
\* for the Aztec prefix only when the byte is not zero.
C2_MembershipIsUnionOfRegistered ==
    \A b \in Byte :
        /\ IsPubKeyHashAddrID(b) <=> \E q \in RegisteredParams : q.PubKeyHashAddrID = b
        /\ IsScriptHashAddrID(b) <=> \E q \in RegisteredParams : q.ScriptHashAddrID = b
        /\ IsAztecAddrID(b) <=> (b # 0 /\ \E q \in RegisteredParams : q.AztecAddrID = b)

\* a membership test has answered true for a prefix that test networks and
\* a caller's network share, while the prefixes no registered network has
\* are not claimed and those of the other networks are
C2_Witness ==
    /\ ret.op = "IsPubKeyHashAddrID"
    /\ ret.id = 111
    /\ ret.ok
    /\ \E q \in RegisteredParams : q.Net \in CustomNets /\ q.PubKeyHashAddrID = 111
    /\ ~IsPubKeyHashAddrID(16)
    /\ ~IsAztecAddrID(18)
    /\ IsAztecAddrID(88)
    /\ IsPubKeyHashAddrID(63)

\* C3: IsAztecAddrID(0) is false in every reachable state, however many
\* networks with AztecAddrID 0 are registered.
C3_ZeroAztecNeverClaimed ==
    /\ ~IsAztecAddrID(0)
    /\ (ret.op = "IsAztecAddrID" /\ ret.id = 0) => ~ret.ok

\* simnet and a caller's network, both with AztecAddrID 0, are registered
\* and IsAztecAddrID(0) has been asked
C3_Witness ==
    /\ ret.op = "IsAztecAddrID"
    /\ ret.id = 0
    /\ \E q \in RegisteredParams : q.Net = SimNet /\ q.AztecAddrID = 0
    /\ \E q \in RegisteredParams : q.Net \in CustomNets /\ q.AztecAddrID = 0


\* the public magics registered for a private magic
PublicKeyIDsOf(id) == {q.HDPublicKeyID : q \in {r \in RegisteredParams : r.HDPrivateKeyID = id}}

InitRegistered(k) == {InitOrder[i] : i \in 1..k}

\* C5: from the empty registry, init() registers main, testnet3, regtest and
\* simnet in that order, each exactly once and without panicking, and once
\* init() has returned every Register of a network with a built-in magic
\* returns ErrDuplicateNet.
C5_BuiltinsRegisterOnce ==
    /\ [](/\ ~panicked
          /\ Len(registered) >= initStep
          /\ \A i \in 1..initStep : registered[i].ptr = InitOrder[i]
          /\ \A a \in DOMAIN PackageVars :
                Cardinality({i \in DOMAIN registered :
                                registered[i].params.Net = PackageVars[a].Net})
                  = IF a \in InitRegistered(initStep) THEN 1 ELSE 0)
    /\ [][(InitDone /\ ret'.op = "Register" /\ ret'.params.Net \in BuiltinNets)
            => ret'.err = ErrDuplicateNet]_vars

\* init() has returned and a later Register of a built-in network was rejected
C5_Witness ==
    /\ InitDone
    /\ Len(registered) = Len(InitOrder)
    /\ ret.op = "Register"
    /\ ret.ptr = "RegressionNetParams"
    /\ ret.err = ErrDuplicateNet


\* the built-in network init() registers in its k-th step
Builtin(k) == PackageVars[InitOrder[k]]

\* the built-in networks init() registers before its k-th step that carry
\* the same prefix f as the k-th
EarlierWithPrefix(k, f) == {j \in 1..(k - 1) : Builtin(j)[f] = Builtin(k)[f]}

\* C6 as claimed: for each built-in network the membership tests for its
\* pubkey-hash prefix, its script-hash prefix and its non-zero Aztec prefix
\* are false in every state before init() registers it and true in every
\* state after.
C6_FalseBeforeTrueAfter ==
    \A k \in 1..Len(InitOrder) :
        LET p == Builtin(k)
        IN  /\ IsPubKeyHashAddrID(p.PubKeyHashAddrID) <=> initStep >= k
            /\ IsScriptHashAddrID(p.ScriptHashAddrID) <=> initStep >= k
            /\ p.AztecAddrID # 0 => (IsAztecAddrID(p.AztecAddrID) <=> initStep >= k)

\* C6 as amended: each test is true in every state after the network is
\* registered, and before that it is true exactly when init() has already
\* registered another built-in network with the same prefix byte (regtest
\* has the three prefixes of testnet3, which init() registers first).
C6_TrueAfterFalseBeforeFirstHolder ==
    \A k \in 1..Len(InitOrder) :
        LET p == Builtin(k)
            held(f) == \E j \in EarlierWithPrefix(k, f) : initStep >= j
        IN  /\ initStep >= k =>
                /\ IsPubKeyHashAddrID(p.PubKeyHashAddrID)
                /\ IsScriptHashAddrID(p.ScriptHashAddrID)
                /\ p.AztecAddrID # 0 => IsAztecAddrID(p.AztecAddrID)
            /\ initStep < k =>
                /\ IsPubKeyHashAddrID(p.PubKeyHashAddrID) <=> held("PubKeyHashAddrID")
                /\ IsScriptHashAddrID(p.ScriptHashAddrID) <=> held("ScriptHashAddrID")
                /\ p.AztecAddrID # 0 => (IsAztecAddrID(p.AztecAddrID) <=> held("AztecAddrID"))

\* testnet3 is registered and regtest is not: the tests for regtest's
\* prefixes are true already, those for simnet's are still false
C6_Witness ==
    /\ initStep = 2
    /\ RegressionNetParams \notin RegisteredParams
    /\ IsPubKeyHashAddrID(RegressionNetParams.PubKeyHashAddrID)
    /\ IsScriptHashAddrID(RegressionNetParams.ScriptHashAddrID)
    /\ IsAztecAddrID(RegressionNetParams.AztecAddrID)
    /\ ~IsPubKeyHashAddrID(SimNetParams.PubKeyHashAddrID)
    /\ ~IsScriptHashAddrID(SimNetParams.ScriptHashAddrID)

\* the answers of the four lookups, for every input the model asks about
Answers ==
    <<[b \in ByteInputs |-> <<IsPubKeyHashAddrID(b), IsScriptHashAddrID(b), IsAztecAddrID(b)>>],
      [id \in KeyInputs |-> HDPrivateKeyToPublicKeyID(id)]>>

\* C7: a step that is not a successful Register (a rejected Register, or any
\* of the four lookups) leaves the five maps and the registered objects as
\* they were, so every lookup answers after it as it did before.
C7_OnlySuccessfulRegisterWrites ==
    [][~(ret'.op = "Register" /\ ret'.err = Nil)
         => /\ UNCHANGED <<regVars, mem, registered>>
            /\ Answers' = Answers]_vars

\* a Register with the main magic was rejected although it carried prefixes
\* and an HD magic pair that no registered network has, and none was stored
C7_Witness ==
    /\ ret.op = "Register"
    /\ ret.err = ErrDuplicateNet
    /\ ret.params.Net = MainNet
    /\ ret.params.PubKeyHashAddrID \notin pubKeyHashAddrIDs
    /\ ret.params.ScriptHashAddrID \notin scriptHashAddrIDs
    /\ ret.params.AztecAddrID # 0
    /\ ret.params.AztecAddrID \notin aztecAddrIDs
    /\ ret.params.HDPrivateKeyID \notin DOMAIN hdPrivToPubKeyIDs
    /\ Len(registered) > Len(InitOrder)

\* C8: no step removes an entry: a claimed magic stays claimed, a prefix a
\* membership test is true of stays so, and a private magic the HD lookup
\* succeeds for never returns ErrUnknownHDKeyID later.
C8_AppendOnly ==
    [][/\ registeredNets \subseteq registeredNets'
       /\ pubKeyHashAddrIDs \subseteq pubKeyHashAddrIDs'
       /\ scriptHashAddrIDs \subseteq scriptHashAddrIDs'
       /\ aztecAddrIDs \subseteq aztecAddrIDs'
       /\ DOMAIN hdPrivToPubKeyIDs \subseteq DOMAIN hdPrivToPubKeyIDs'
       /\ \A b \in ByteInputs :
            /\ IsPubKeyHashAddrID(b) => IsPubKeyHashAddrID(b)'
            /\ IsScriptHashAddrID(b) => IsScriptHashAddrID(b)'
            /\ IsAztecAddrID(b) => IsAztecAddrID(b)'
       /\ \A id \in KeyInputs :
            HDPrivateKeyToPublicKeyID(id).err = Nil
              => HDPrivateKeyToPublicKeyID(id)'.err = Nil]_vars

\* every custom network is registered, the entry of the main private magic
\* was written again by one of them, and everything the built-in networks
\* claimed is still claimed
C8_Witness ==
    /\ CustomNets \subseteq registeredNets
    /\ BuiltinNets \subseteq registeredNets
    /\ hdPrivToPubKeyIDs[MainNetParams.HDPrivateKeyID] \notin DOMAIN PackageVars
    /\ \A a \in DOMAIN PackageVars :
        /\ IsPubKeyHashAddrID(PackageVars[a].PubKeyHashAddrID)
        /\ IsScriptHashAddrID(PackageVars[a].ScriptHashAddrID)
        /\ HDPrivateKeyToPublicKeyID(PackageVars[a].HDPrivateKeyID).err = Nil


-----------------------------------------------------------------------------
(* Properties of the timespans *)

\* n seconds and ms milliseconds as a Duration
Seconds(n, ms) == Dur(FALSE, (n * 1000) + ms, 0)

\* the main network's difficulty window values
IsMainValues(p) ==
    /\ p.PowAveragingWindow = 17
    /\ p.TargetTimePerBlock = Seconds(60, 0)
    /\ p.PowMaxAdjustDown = 32
    /\ p.PowMaxAdjustUp = 16

\* C9 as claimed: with window 17, block time 60s, down 32 and up 16,
\* AveragingWindowTimespan is 1020s, MaxActualTimespan is 1346s and
\* MinActualTimespan is 856s.
C9_MainTimespansWholeSeconds ==
    (ts.op # "Params" /\ IsMainValues(ts.p)) =>
        /\ ts.op = "AveragingWindowTimespan" => ts.d = Seconds(1020, 0)
        /\ ts.op = "MaxActualTimespan" => ts.d = Seconds(1346, 0)
        /\ ts.op = "MinActualTimespan" => ts.d = Seconds(856, 0)

\* C9 as amended: with those values AveragingWindowTimespan is 1020s,
\* MaxActualTimespan is 1346.4s and MinActualTimespan is 856.8s: a Duration
\* counts nanoseconds, so the division by 100 is exact and drops nothing.
C9_MainTimespansExact ==
    (ts.op # "Params" /\ IsMainValues(ts.p)) =>
        /\ ts.op = "AveragingWindowTimespan" => ts.d = Seconds(1020, 0)
        /\ ts.op = "MaxActualTimespan" => ts.d = Seconds(1346, 400)
        /\ ts.op = "MinActualTimespan" => ts.d = Seconds(856, 800)

\* MaxActualTimespan has been called on the main network's values
C9_Witness ==
    /\ ts.op = "MaxActualTimespan"
    /\ IsMainValues(ts.p)
    /\ ts.p = MainNetParams

\* Reference arithmetic on magnitudes, by addition (double and add) and
\* comparison
Magnitude(d) == [d EXCEPT !.neg = FALSE]

RefAdd(a, b) ==
    Dur(FALSE, a.hi + b.hi + ((a.lo + b.lo) \div Limb), (a.lo + b.lo) % Limb)

RECURSIVE RefTimes(_, _)
RefTimes(d, n) ==
    IF n = 0
    THEN DurationOf(0)
    ELSE LET twice == RefAdd(RefTimes(d, n \div 2), RefTimes(d, n \div 2))
         IN  IF n % 2 = 0 THEN twice ELSE RefAdd(twice, d)

RefLess(a, b) == a.hi < b.hi \/ (a.hi = b.hi /\ a.lo < b.lo)

\* q is the quotient, truncated toward zero, of the number with magnitude m
\* and sign neg by the positive integer n
IsTruncatedQuotient(q, m, neg, n) ==
    /\ ~RefLess(m, RefTimes(Magnitude(q), n))
    /\ RefLess(m, RefAdd(RefTimes(Magnitude(q), n), DurationOf(n)))
    /\ q.neg = (neg /\ Magnitude(q) # DurationOf(0))

\* C10: for every receiver, AveragingWindowTimespan is PowAveragingWindow
\* times TargetTimePerBlock, and MaxActualTimespan and MinActualTimespan are
\* the quotients, truncated toward zero, of the exact products
\* AveragingWindowTimespan * (100 + PowMaxAdjustDown) and
\* AveragingWindowTimespan * (100 - PowMaxAdjustUp) by 100, whatever the
\* percentages are.
C10_MultiplyThenTruncate ==
    ts.op # "Params" =>
        LET awt == RefTimes(ts.p.TargetTimePerBlock, ts.p.PowAveragingWindow)
            pct == IF ts.op = "MaxActualTimespan"
                   THEN 100 + ts.p.PowMaxAdjustDown
                   ELSE 100 - ts.p.PowMaxAdjustUp
        IN  IF ts.op = "AveragingWindowTimespan"
            THEN ts.d = awt
            ELSE IsTruncatedQuotient(ts.d, RefTimes(awt, Abs(pct)), pct < 0, 100)

\* MinActualTimespan has returned a negative, inexact quotient (the
\* percentage is above 100 and the product no multiple of 100) that dividing
\* before multiplying would not have given
C10_Witness ==
    /\ ts.op = "MinActualTimespan"
    /\ ts.p.PowMaxAdjustUp > 100
    /\ ts.d.neg
    /\ RefTimes(Magnitude(ts.d), 100)
         # RefTimes(AveragingWindowTimespan(ts.p), ts.p.PowMaxAdjustUp - 100)
    /\ ts.d # DurMul(DurDiv(AveragingWindowTimespan(ts.p), 100),
                     DurationOf(100 - ts.p.PowMaxAdjustUp))

\* some proof-of-work or hash literal of the catalog is not a number
BadLiteral ==
    \/ \E i \in DOMAIN catalog.powLits : ~BigSetString(catalog.powLits[i]).ok
    \/ \E i \in DOMAIN catalog.hashLits : NewHashFromStr(catalog.hashLits[i]).err

\* C11: when a hash or proof-of-work literal of the catalog fails to parse,
\* initialisation aborts before any network is registered, and no registered
\* record holds a proof-of-work limit or a hash that was not parsed.
C11_FailFast ==
    /\ BadLiteral => registered = <<>> /\ registeredNets = {}
    /\ \A i \in DOMAIN registered :
        registered[i].ptr \in DOMAIN PowLimitOf =>
            catalog.powLimits[PowLimitOf[registered[i].ptr]].parsed
    /\ \A i \in DOMAIN catalog.hashes :
        catalog.hashes[i].parsed \/ (panicked /\ registered = <<>>)

\* the HD private magics of the registered networks, and for each the
\* positions in the registration order of the networks that carry it
RegisteredHDPrivateKeyIDs == {q.HDPrivateKeyID : q \in RegisteredParams}
Carriers(k) == {i \in DOMAIN registered : registered[i].params.HDPrivateKeyID = k}
FirstCarrier(k) == CHOOSE i \in Carriers(k) : \A j \in Carriers(k) : i <= j
LastCarrier(k) == CHOOSE i \in Carriers(k) : \A j \in Carriers(k) : j <= i

\* what the lookup of private magic k answers, now and in the call that has
\* just returned, is the public magic pub
LookupAnswers(k, pub) ==
    /\ HDPrivateKeyToPublicKeyID(k).err = Nil
    /\ HDPrivateKeyToPublicKeyID(k).bytes = pub
    /\ (ret.op = "HDPrivateKeyToPublicKeyID" /\ ret.id = k)
        => (ret.err = Nil /\ ret.bytes = pub)

\* C12 as stated: the lookup of a private magic returns the HDPublicKeyID of
\* the network registered first among those that carry it, as its Params
\* object holds it.
C12_FirstRegistrationWins ==
    \A k \in RegisteredHDPrivateKeyIDs :
        LookupAnswers(k, mem[registered[FirstCarrier(k)].ptr].HDPublicKeyID)

\* C12: when several networks with distinct magics and the same
\* HDPrivateKeyID are registered, HDPrivateKeyToPublicKeyID of that private
\* magic returns, in every later state, the HDPublicKeyID of the network
\* registered last among them, as its Params object holds it.
C12_LastRegistrationWins ==
    \A k \in RegisteredHDPrivateKeyIDs :
        /\ HDPrivateKeyToPublicKeyID(k).ptr = registered[LastCarrier(k)].ptr
        /\ LookupAnswers(k, mem[registered[LastCarrier(k)].ptr].HDPublicKeyID)

\* two networks with different public magics carry one private magic, and a
\* lookup of it has just returned the public magic of the later one
C12_Witness ==
    \E i, j \in DOMAIN registered :
        /\ i < j
        /\ registered[i].params.Net # registered[j].params.Net
        /\ registered[i].params.HDPrivateKeyID = registered[j].params.HDPrivateKeyID
        /\ registered[i].params.HDPublicKeyID # registered[j].params.HDPublicKeyID
        /\ j = LastCarrier(registered[j].params.HDPrivateKeyID)
        /\ ret.op = "HDPrivateKeyToPublicKeyID"
        /\ ret.id = registered[j].params.HDPrivateKeyID
        /\ ret.err = Nil
        /\ ret.bytes = registered[j].params.HDPublicKeyID

\* C13: a Register of a network whose magic is unclaimed and whose
\* HDPrivateKeyID is already a key of the HD map returns nil, adds no key,
\* and replaces the entry: the lookup of that private magic then returns the
\* HDPublicKeyID of the network just registered.
C13_DuplicateHDOverwrites ==
    [][\A k \in DOMAIN hdPrivToPubKeyIDs :
         (/\ ret'.op = "Register"
          /\ ret'.params.Net \notin registeredNets
          /\ ret'.params.HDPrivateKeyID = k)
         => /\ ret'.err = Nil
            /\ DOMAIN hdPrivToPubKeyIDs' = DOMAIN hdPrivToPubKeyIDs
            /\ hdPrivToPubKeyIDs'[k] = ret'.ptr
            /\ HDPrivateKeyToPublicKeyID(k)'.err = Nil
            /\ HDPrivateKeyToPublicKeyID(k)'.bytes = ret'.params.HDPublicKeyID
      ]_vars

\* a Register has just succeeded for a network whose private magic an earlier
\* network registered with another public magic, and the lookup now returns
\* the new one
C13_Witness ==
    /\ ret.op = "Register"
    /\ ret.err = Nil
    /\ registered[Len(registered)].ptr = ret.ptr
    /\ \E i \in 1..(Len(registered) - 1) :
        /\ registered[i].params.HDPrivateKeyID = ret.params.HDPrivateKeyID
        /\ registered[i].params.HDPublicKeyID # ret.params.HDPublicKeyID
        /\ HDPrivateKeyToPublicKeyID(ret.params.HDPrivateKeyID).bytes
             # registered[i].params.HDPublicKeyID
    /\ HDPrivateKeyToPublicKeyID(ret.params.HDPrivateKeyID).bytes
         = ret.params.HDPublicKeyID

\* C14: once Register(p) has succeeded, and until a later Register replaces
\* the entry, HDPrivateKeyToPublicKeyID(p.HDPrivateKeyID) returns the public
\* magic p had when it was registered, whatever the caller writes afterwards
\* to p.HDPublicKeyID or to a slice an earlier lookup returned.
C14_EntryImmutable ==
    \A i \in DOMAIN registered :
        i = LastCarrier(registered[i].params.HDPrivateKeyID)
            => LookupAnswers(registered[i].params.HDPrivateKeyID,
                             registered[i].params.HDPublicKeyID)

====
